---------------------------- MODULE Spec2Model ----------------------------
(***************************************************************************)
(* Model of the strmctrl driver (package strmctrl): the session lifecycle  *)
(* (Open, keepAlive, Close), the command operations writing to the OUT     *)
(* endpoint, the event polling goroutine started by ReadEvents, the        *)
(* decoding of raw input reports into events (newEvent), and the packet    *)
(* that sendCRTCommand builds for a command.                               *)
(***************************************************************************)
EXTENDS Integers, Sequences, FiniteSets, TLC

(***************************************************************************)
(* Bounds of the model.                                                    *)
(***************************************************************************)
\* longest list of devices usb.OpenDevices returns
MaxDevices == 2
\* operations the caller invokes on an opened Device
MaxOps == 3
\* ticks of the keep-alive ticker taken by keepAlive
MaxTicks == 2
\* reads of the IN endpoint made by the polling goroutine
MaxReads == 2
\* transfers on the OUT endpoint that fail or are short
MaxFaults == 1
\* arguments of a command in the check of the packet
MaxArgs == 3
\* calls of sendCRTCommand in the check of the packet
Encodings == 2

(***************************************************************************)
(* Program constants.                                                      *)
(***************************************************************************)
ImageSize == 64
\* largest value of a uint8 (Control, Action, hwControl, the report bytes)
MaxUint8 == 255

Released == 0
Pressed == 1
TurnedCW == 2
TurnedCCW == 3

DisplayTopLeft == 1
DisplayTopCenter == 2
DisplayTopRight == 3
DisplayBottomLeft == 4
DisplayBottomCenter == 5
DisplayBottomRight == 6
ButtonLeft == 7
ButtonCenter == 8
ButtonRight == 9
KnobTop == 10
KnobBottomLeft == 11
KnobBottomRight == 12

\* hwControl: 0x01..0x06
displayTopLeft == 1
displayTopCenter == 2
displayTopRight == 3
displayBottomLeft == 4
displayBottomCenter == 5
displayBottomRight == 6
\* 0x25, 0x30, 0x31
buttonLeft == 37
buttonCenter == 48
buttonRight == 49
\* 0x35, 0x33, 0x34
knobTop == 53
knobBottomLeft == 51
knobBottomRight == 52
\* 0x51, 0x50, 0x91, 0x90, 0x61, 0x60
knobTopCW == 81
knobTopCCW == 80
knobBottomLeftCW == 145
knobBottomLeftCCW == 144
knobBottomRightCW == 97
knobBottomRightCCW == 96

\* offsets of the control code and of the state in an input report, and the
\* least length of a complete report
CodeOffset == 9
StateOffset == 10
MinReportLen == 11

Bytes == 0..MaxUint8

(***************************************************************************)
(* Decoding of an input report: newEvent, newPressEvent, newRotateEvent.   *)
(* A result is the pair (Event, error) of the Go functions.                *)
(***************************************************************************)
UnknownControl == [err |-> TRUE, Control |-> 0, Action |-> 0]

Event(control, action) == [err |-> FALSE, Control |-> control, Action |-> action]

\* Action(state): a conversion between two uint8 types
newPressEvent(control, state) == Event(control, state % (MaxUint8 + 1))

newRotateEvent_SwappedParity(control, hwcontrol) ==
    Event(control, IF hwcontrol % 2 = 1 THEN TurnedCCW ELSE TurnedCW)

newRotateEvent(control, hwcontrol) ==
    Event(control, IF hwcontrol % 2 = 1 THEN TurnedCW ELSE TurnedCCW)

newEvent(control, state) ==
    CASE control >= displayTopLeft /\ control <= displayBottomRight ->
            newPressEvent(control % (MaxUint8 + 1), state)
      [] control = buttonLeft -> newPressEvent(ButtonLeft, state)
      [] control = buttonCenter -> newPressEvent(ButtonCenter, state)
      [] control = buttonRight -> newPressEvent(ButtonRight, state)
      [] control = knobTop -> newPressEvent(KnobTop, state)
      [] control = knobBottomLeft -> newPressEvent(KnobBottomLeft, state)
      [] control = knobBottomRight -> newPressEvent(KnobBottomRight, state)
      [] control = knobTopCW \/ control = knobTopCCW ->
            newRotateEvent(KnobTop, control)
      [] control = knobBottomLeftCW \/ control = knobBottomLeftCCW ->
            newRotateEvent(KnobBottomLeft, control)
      [] control = knobBottomRightCW \/ control = knobBottomRightCCW ->
            newRotateEvent(KnobBottomRight, control)
      [] OTHER -> UnknownControl

(***************************************************************************)
(* State.                                                                  *)
(***************************************************************************)
VARIABLES
    \* the arguments and the environment of Open
    serial,      \* the serial number given to Open ("" for any device)
    devices,     \* what usb.OpenDevices returns: for each device the result
                 \* of device.SerialNumber(), a serial or SerialErr
    handles,     \* for each device of devices: "open" or "closed"
    found,       \* foundDevice: an index of devices, 0 for nil
    openErr,     \* what Open returned: "" while it runs, "ok", or the error
    \* the Device
    usb,         \* the gousb context: "nil", "open", "closed"
    config,      \* d.config: "nil", "open", "closed"
    intf0,       \* d.intf0: "nil", "open", "closed"
    epIn,        \* d.epIn is not nil
    epOut,       \* d.epOut is not nil
    closed,      \* the channel d.closed is closed
    closeCount,  \* how often close(d.closed) was executed
    rel,         \* the resources Device.Close released, in order
    out,         \* the transfers made on the OUT endpoint, in order
    panicked,    \* a goroutine panicked: the process is gone
    \* the goroutines
    pc,          \* where each goroutine is
    after,       \* what the caller of Device.Close does when it returns
    cur,         \* the running command operation of the caller
    ret,         \* what the last command operation returned
    ops,         \* operations the caller has invoked
    closeCalls,  \* calls of Device.Close by the caller that have returned
    ticks,       \* ticks taken by keepAlive
    faults,      \* failed or short transfers so far
    \* ReadEvents
    events,      \* the channel events: "nil", "open", "closed"
    buf,         \* bytes 9 and 10 of the read buffer of the polling goroutine
    reports,     \* the results of epIn.ReadContext so far, in order
    pending,     \* the event the polling goroutine is sending
    delivered,   \* the events the consumer received, in order
    reads,       \* reads of the IN endpoint so far
    consumer,    \* "receiving" or "stopped"
    pollers,     \* polling goroutines started by ReadEvents so far
    \* decoding on its own
    rawCode, rawState, decoded,
    \* the encoding of a command on its own
    packetSize,  \* d.epOut.Desc.MaxPacketSize
    cmdName,     \* cmd
    cmdArgs,     \* args
    sent,        \* what each call handed to epOut.WriteContext, and its error
    \* the arguments of the caller under test
    brightness,  \* percent of SetBrightness
    images       \* imgs of SetImages

openVars == <<serial, devices, handles, found, openErr>>
devVars == <<usb, config, intf0, epIn, epOut, closed, closeCount, rel, out, panicked>>
thrVars == <<pc, after, cur, ret, ops, closeCalls, ticks, faults>>
pollVars == <<events, buf, reports, pending, delivered, reads, consumer, pollers>>
decVars == <<rawCode, rawState, decoded>>
encVars == <<packetSize, cmdName, cmdArgs, sent>>
argVars == <<brightness, images>>
vars == <<openVars, devVars, thrVars, pollVars, decVars, encVars, argVars>>

\* "main" and "second" are goroutines of the caller
Threads == {"main", "second", "keepAlive", "poll"}

\* device.SerialNumber() returned an error
SerialErr == "<error>"
Serials == {"A", "B"}

SeqsUpTo(S, n) == UNION {[1..k -> S] : k \in 0..n}

NoOp == [op |-> "none"]
NoEvent == [err |-> TRUE, Control |-> 0, Action |-> 0]
NoReport == [err |-> TRUE, n |-> 0, code |-> 0, state |-> 0]

(***************************************************************************)
(* Transfers on the OUT endpoint.  A transfer ends "ok" (all bytes         *)
(* written), "short" (fewer bytes written, no error) or "err".             *)
(***************************************************************************)
Results == IF faults < MaxFaults THEN {"ok", "short", "err"} ELSE {"ok"}

Transfer(op, cmd, args, res) == [op |-> op, cmd |-> cmd, args |-> args, res |-> res]

\* sendCRTCommand: the packet is built, handed to epOut.WriteContext and the
\* result is an error unless all bytes were written; d.epOut.Desc is read
\* first, which panics when d.epOut is nil
sendCRTCommand(op, cmd, args, res) ==
    IF epOut
    THEN /\ out' = Append(out, Transfer(op, cmd, args, res))
         /\ faults' = IF res = "ok" THEN faults ELSE faults + 1
         /\ panicked' = panicked
    ELSE /\ panicked' = TRUE
         /\ UNCHANGED <<out, faults>>

Running == ~panicked

(***************************************************************************)
(* Open.                                                                   *)
(***************************************************************************)
\* the loop over devices of Open: the device found and the handles left open
RECURSIVE SelectLoop_KeepsOthersOpen(_, _, _, _, _)
SelectLoop_KeepsOthersOpen(devs, ser, i, fnd, hs) ==
    IF i > Len(devs) THEN [found |-> fnd, handles |-> hs]
    ELSE IF fnd # 0
         THEN SelectLoop_KeepsOthersOpen(devs, ser, i + 1, fnd, hs)
    ELSE IF ser = ""
         THEN SelectLoop_KeepsOthersOpen(devs, ser, i + 1, i, hs)
    ELSE IF devs[i] = SerialErr
         THEN SelectLoop_KeepsOthersOpen(devs, ser, i + 1, fnd, [hs EXCEPT ![i] = "closed"])
    ELSE IF ser = devs[i]
         THEN SelectLoop_KeepsOthersOpen(devs, ser, i + 1, i, hs)
    ELSE SelectLoop_KeepsOthersOpen(devs, ser, i + 1, fnd, [hs EXCEPT ![i] = "closed"])

RECURSIVE SelectLoop(_, _, _, _, _)
SelectLoop(devs, ser, i, fnd, hs) ==
    IF i > Len(devs) THEN [found |-> fnd, handles |-> hs]
    ELSE IF fnd # 0
         THEN SelectLoop(devs, ser, i + 1, fnd, [hs EXCEPT ![i] = "closed"])
    ELSE IF ser = ""
         THEN SelectLoop(devs, ser, i + 1, i, hs)
    ELSE IF devs[i] = SerialErr
         THEN SelectLoop(devs, ser, i + 1, fnd, [hs EXCEPT ![i] = "closed"])
    ELSE IF ser = devs[i]
         THEN SelectLoop(devs, ser, i + 1, i, hs)
    ELSE SelectLoop(devs, ser, i + 1, fnd, [hs EXCEPT ![i] = "closed"])

\* usb := gousb.NewContext(); usb.OpenDevices(...): on an error the devices
\* opened so far are closed and the context with them
OpenDevices ==
    /\ Running /\ pc["main"] = "Open"
    /\ \E enumErr \in BOOLEAN :
        IF enumErr
        THEN /\ handles' = [i \in 1..Len(devices) |-> "closed"]
             /\ usb' = "closed"
             /\ openErr' = "cannot find device: <err>"
             /\ pc' = [pc EXCEPT !["main"] = "failed"]
        ELSE /\ handles' = [i \in 1..Len(devices) |-> "open"]
             /\ usb' = "open"
             /\ openErr' = openErr
             /\ pc' = [pc EXCEPT !["main"] = "select"]
    /\ UNCHANGED <<serial, devices, found>>
    /\ UNCHANGED <<config, intf0, epIn, epOut, closed, closeCount, rel, out, panicked>>
    /\ UNCHANGED <<after, cur, ret, ops, closeCalls, ticks, faults>>
    /\ UNCHANGED <<pollVars, decVars, encVars, argVars>>

OpenSelect ==
    /\ Running /\ pc["main"] = "select"
    /\ LET r == SelectLoop(devices, serial, 1, 0, handles) IN
        /\ found' = r.found
        /\ handles' = r.handles
        /\ IF r.found = 0
           THEN /\ usb' = "closed"
                /\ openErr' = "cannot find device"
                /\ pc' = [pc EXCEPT !["main"] = "failed"]
           ELSE /\ UNCHANGED <<usb, openErr>>
                /\ pc' = [pc EXCEPT !["main"] = "SetAutoDetach"]
    /\ UNCHANGED <<serial, devices>>
    /\ UNCHANGED <<config, intf0, epIn, epOut, closed, closeCount, rel, out, panicked>>
    /\ UNCHANGED <<after, cur, ret, ops, closeCalls, ticks, faults>>
    /\ UNCHANGED <<pollVars, decVars, encVars, argVars>>

\* foundDevice.SetAutoDetach(true) and foundDevice.Reset(): on an error the
\* device and the context are closed
OpenStep(at, next, msg) ==
    /\ Running /\ pc["main"] = at
    /\ \E fails \in BOOLEAN :
        IF fails
        THEN /\ handles' = [handles EXCEPT ![found] = "closed"]
             /\ usb' = "closed"
             /\ openErr' = msg
             /\ pc' = [pc EXCEPT !["main"] = "failed"]
        ELSE /\ UNCHANGED <<handles, usb, openErr>>
             /\ pc' = [pc EXCEPT !["main"] = next]
    /\ UNCHANGED <<serial, devices, found>>
    /\ UNCHANGED <<config, intf0, epIn, epOut, closed, closeCount, rel, out, panicked>>
    /\ UNCHANGED <<after, cur, ret, ops, closeCalls, ticks, faults>>
    /\ UNCHANGED <<pollVars, decVars, encVars, argVars>>

SetAutoDetach == OpenStep("SetAutoDetach", "Reset", "cannot set autoDetach")

Reset == OpenStep("Reset", "setupEndpoints", "cannot reset device")

\* setupEndpoints: config 1, interface 0/0, IN endpoint 2, OUT endpoint 3, each
\* assigned to its field (nil on an error) and the first error returned.  On an
\* error Open calls result.Close().
SetupPoints == <<"config", "intf0", "epIn", "epOut">>

Reaches(failAt, k) ==
    \A j \in 1..k : SetupPoints[j] # failAt

setupEndpoints ==
    /\ Running /\ pc["main"] = "setupEndpoints"
    /\ \E failAt \in {"none", "config", "intf0", "epIn", "epOut"} :
        /\ config' = IF Reaches(failAt, 1) THEN "open" ELSE "nil"
        /\ intf0' = IF Reaches(failAt, 2) THEN "open" ELSE "nil"
        /\ epIn' = Reaches(failAt, 3)
        /\ epOut' = Reaches(failAt, 4)
        /\ IF failAt = "none"
           THEN /\ pc' = [pc EXCEPT !["main"] = "initDIS"]
                /\ after' = after
           ELSE /\ pc' = [pc EXCEPT !["main"] = "Close"]
                /\ after' = "cannot setup endpoints"
    /\ UNCHANGED openVars
    /\ UNCHANGED <<usb, closed, closeCount, rel, out, panicked>>
    /\ UNCHANGED <<cur, ret, ops, closeCalls, ticks, faults>>
    /\ UNCHANGED <<pollVars, decVars, encVars, argVars>>

\* init: DIS, then CONNECT if DIS was sent.  On an error Open calls
\* result.Close().
initStep_IgnoresError(at, cmd, next) ==
    /\ Running /\ pc["main"] = at
    /\ \E res \in Results :
        /\ sendCRTCommand("Open", cmd, <<>>, res)
        /\ pc' = [pc EXCEPT !["main"] = next]
        /\ after' = after
    /\ UNCHANGED openVars
    /\ UNCHANGED <<usb, config, intf0, epIn, epOut, closed, closeCount, rel>>
    /\ UNCHANGED <<cur, ret, ops, closeCalls, ticks>>
    /\ UNCHANGED <<pollVars, decVars, encVars, argVars>>

initStep(at, cmd, next) ==
    /\ Running /\ pc["main"] = at
    /\ \E res \in Results :
        /\ sendCRTCommand("Open", cmd, <<>>, res)
        /\ IF res = "ok"
           THEN /\ pc' = [pc EXCEPT !["main"] = next]
                /\ after' = after
           ELSE /\ pc' = [pc EXCEPT !["main"] = "Close"]
                /\ after' = "cannot initialize device"
    /\ UNCHANGED openVars
    /\ UNCHANGED <<usb, config, intf0, epIn, epOut, closed, closeCount, rel>>
    /\ UNCHANGED <<cur, ret, ops, closeCalls, ticks>>
    /\ UNCHANGED <<pollVars, decVars, encVars, argVars>>

initDIS == initStep("initDIS", "DIS", "initCONNECT")

initCONNECT == initStep("initCONNECT", "CONNECT", "go keepAlive")

\* go result.keepAlive(); return result, nil
goKeepAlive ==
    /\ Running /\ pc["main"] = "go keepAlive"
    /\ pc' = [pc EXCEPT !["main"] = "ready", !["keepAlive"] = "select"]
    /\ openErr' = "ok"
    /\ UNCHANGED <<serial, devices, handles, found>>
    /\ UNCHANGED devVars
    /\ UNCHANGED <<after, cur, ret, ops, closeCalls, ticks, faults>>
    /\ UNCHANGED <<pollVars, decVars, encVars, argVars>>

(***************************************************************************)
(* Device.Close, run by the caller t ("main"): from Open on a failure, and *)
(* by the user of an opened Device.                                        *)
(***************************************************************************)
\* where Device.Close returns to
Return(t) ==
    IF after = "user"
    THEN /\ pc' = [pc EXCEPT ![t] = "ready"]
         /\ closeCalls' = closeCalls + 1
         /\ openErr' = openErr
    ELSE /\ pc' = [pc EXCEPT ![t] = "failed"]
         /\ closeCalls' = closeCalls
         /\ openErr' = after

\* a Close without the guard: the teardown runs on every call
CloseSelect_NoReturn(t) ==
    /\ Running /\ pc[t] = "Close"
    /\ pc' = [pc EXCEPT ![t] = IF closed THEN "CLE" ELSE "close(closed)"]
    /\ UNCHANGED <<closeCalls, openErr>>
    /\ UNCHANGED <<serial, devices, handles, found>>
    /\ UNCHANGED devVars
    /\ UNCHANGED <<after, cur, ret, ops, ticks, faults>>
    /\ UNCHANGED <<pollVars, decVars, encVars, argVars>>

\* select { case <-d.closed: return; default: ... }
CloseSelect(t) ==
    /\ Running /\ pc[t] = "Close"
    /\ IF closed
       THEN Return(t)
       ELSE /\ pc' = [pc EXCEPT ![t] = "close(closed)"]
            /\ UNCHANGED <<closeCalls, openErr>>
    /\ UNCHANGED <<serial, devices, handles, found>>
    /\ UNCHANGED devVars
    /\ UNCHANGED <<after, cur, ret, ops, ticks, faults>>
    /\ UNCHANGED <<pollVars, decVars, encVars, argVars>>

\* close(d.closed): closing a closed channel panics
CloseSignal(t) ==
    /\ Running /\ pc[t] = "close(closed)"
    /\ IF closed
       THEN /\ panicked' = TRUE
            /\ UNCHANGED <<closed, closeCount, pc>>
       ELSE /\ closed' = TRUE
            /\ closeCount' = closeCount + 1
            /\ pc' = [pc EXCEPT ![t] = "CLE"]
            /\ panicked' = panicked
    /\ UNCHANGED openVars
    /\ UNCHANGED <<usb, config, intf0, epIn, epOut, rel, out>>
    /\ UNCHANGED <<after, cur, ret, ops, closeCalls, ticks, faults>>
    /\ UNCHANGED <<pollVars, decVars, encVars, argVars>>

\* a Close that returns when a write fails
CloseSend_ReturnsOnError(t, at, cmd, args, next) ==
    /\ Running /\ pc[t] = at
    /\ \E res \in Results :
        /\ sendCRTCommand("Close", cmd, args, res)
        /\ pc' = [pc EXCEPT ![t] = IF res = "ok" THEN next ELSE "ready"]
    /\ UNCHANGED openVars
    /\ UNCHANGED <<usb, config, intf0, epIn, epOut, closed, closeCount, rel>>
    /\ UNCHANGED <<after, cur, ret, ops, closeCalls, ticks>>
    /\ UNCHANGED <<pollVars, decVars, encVars, argVars>>

\* d.sendCRTCommandWithTimeout("CLE", 0x00, 0xff) and ("STP"): the error is
\* dropped
CloseSend(t, at, cmd, args, next) ==
    /\ Running /\ pc[t] = at
    /\ \E res \in Results : sendCRTCommand("Close", cmd, args, res)
    /\ pc' = [pc EXCEPT ![t] = next]
    /\ UNCHANGED openVars
    /\ UNCHANGED <<usb, config, intf0, epIn, epOut, closed, closeCount, rel>>
    /\ UNCHANGED <<after, cur, ret, ops, closeCalls, ticks>>
    /\ UNCHANGED <<pollVars, decVars, encVars, argVars>>

CloseCLE(t) == CloseSend(t, "CLE", "CLE", <<0, 255>>, "STP")

CloseSTP(t) == CloseSend(t, "STP", "STP", <<>>, "intf0.Close")

\* if d.intf0 != nil { d.intf0.Close() }
CloseIntf(t) ==
    /\ Running /\ pc[t] = "intf0.Close"
    /\ IF intf0 # "nil"
       THEN intf0' = "closed" /\ rel' = Append(rel, "intf0")
       ELSE UNCHANGED <<intf0, rel>>
    /\ pc' = [pc EXCEPT ![t] = "config.Close"]
    /\ UNCHANGED openVars
    /\ UNCHANGED <<usb, config, epIn, epOut, closed, closeCount, out, panicked>>
    /\ UNCHANGED <<after, cur, ret, ops, closeCalls, ticks, faults>>
    /\ UNCHANGED <<pollVars, decVars, encVars, argVars>>

\* if d.config != nil { d.config.Close() }
CloseConfig(t) ==
    /\ Running /\ pc[t] = "config.Close"
    /\ IF config # "nil"
       THEN config' = "closed" /\ rel' = Append(rel, "config")
       ELSE UNCHANGED <<config, rel>>
    /\ pc' = [pc EXCEPT ![t] = "device.Close"]
    /\ UNCHANGED openVars
    /\ UNCHANGED <<usb, intf0, epIn, epOut, closed, closeCount, out, panicked>>
    /\ UNCHANGED <<after, cur, ret, ops, closeCalls, ticks, faults>>
    /\ UNCHANGED <<pollVars, decVars, encVars, argVars>>

\* if d.device != nil { d.device.Close() }
CloseDevice(t) ==
    /\ Running /\ pc[t] = "device.Close"
    /\ IF found # 0
       THEN handles' = [handles EXCEPT ![found] = "closed"] /\ rel' = Append(rel, "device")
       ELSE UNCHANGED <<handles, rel>>
    /\ pc' = [pc EXCEPT ![t] = "usb.Close"]
    /\ UNCHANGED <<serial, devices, found, openErr>>
    /\ UNCHANGED <<usb, config, intf0, epIn, epOut, closed, closeCount, out, panicked>>
    /\ UNCHANGED <<after, cur, ret, ops, closeCalls, ticks, faults>>
    /\ UNCHANGED <<pollVars, decVars, encVars, argVars>>

\* if d.usb != nil { d.usb.Close() }, and Close returns
CloseUsb(t) ==
    /\ Running /\ pc[t] = "usb.Close"
    /\ IF usb # "nil"
       THEN usb' = "closed" /\ rel' = Append(rel, "usb")
       ELSE UNCHANGED <<usb, rel>>
    /\ Return(t)
    /\ UNCHANGED <<serial, devices, handles, found>>
    /\ UNCHANGED <<config, intf0, epIn, epOut, closed, closeCount, out, panicked>>
    /\ UNCHANGED <<after, cur, ret, ops, ticks, faults>>
    /\ UNCHANGED <<pollVars, decVars, encVars, argVars>>

(***************************************************************************)
(* keepAlive: a select over d.closed and the ticker.  When both are ready  *)
(* the select takes either.                                                *)
(***************************************************************************)
\* case <-d.closed: return
KeepAliveClosed ==
    /\ Running /\ pc["keepAlive"] = "select"
    /\ closed
    /\ pc' = [pc EXCEPT !["keepAlive"] = "done"]
    /\ UNCHANGED <<openVars, devVars, pollVars, decVars, encVars, argVars>>
    /\ UNCHANGED <<after, cur, ret, ops, closeCalls, ticks, faults>>

\* case <-tick.C:
KeepAliveTick ==
    /\ Running /\ pc["keepAlive"] = "select"
    /\ ticks < MaxTicks
    /\ ticks' = ticks + 1
    /\ pc' = [pc EXCEPT !["keepAlive"] = "CONNECT"]
    /\ UNCHANGED <<openVars, devVars, pollVars, decVars, encVars, argVars>>
    /\ UNCHANGED <<after, cur, ret, ops, closeCalls, faults>>

\* d.sendCRTCommandWithTimeout("CONNECT"): the error is dropped
KeepAliveSend ==
    /\ Running /\ pc["keepAlive"] = "CONNECT"
    /\ \E res \in Results : sendCRTCommand("keepAlive", "CONNECT", <<>>, res)
    /\ pc' = [pc EXCEPT !["keepAlive"] = "select"]
    /\ UNCHANGED openVars
    /\ UNCHANGED <<usb, config, intf0, epIn, epOut, closed, closeCount, rel>>
    /\ UNCHANGED <<after, cur, ret, ops, closeCalls, ticks>>
    /\ UNCHANGED <<pollVars, decVars, encVars, argVars>>

(***************************************************************************)
(* The command operations of an opened Device, run by the caller t.        *)
(***************************************************************************)
\* an image.Image: its bounds and the length of its JPEG encoding
Image(minX, minY, maxX, maxY, jpgLen) ==
    [nil |-> FALSE, minX |-> minX, minY |-> minY, maxX |-> maxX, maxY |-> maxY,
     jpgLen |-> jpgLen]

NilImage == [nil |-> TRUE, minX |-> 0, minY |-> 0, maxX |-> 0, maxY |-> 0, jpgLen |-> 0]

GoodImage == Image(0, 0, ImageSize, ImageSize, 700)
SmallImage == Image(0, 0, 32, 32, 300)
\* 32x32 pixels that end at (64, 64)
OffsetImage == Image(32, 32, ImageSize, ImageSize, 300)
\* 1064x1064 pixels that end at (64, 64); the encoding is longer than 65535
BigImage == Image(-1000, -1000, ImageSize, ImageSize, 70000)

Images == {GoodImage, SmallImage}

ImageArrays ==
    { <<GoodImage, NilImage, GoodImage, NilImage, NilImage, NilImage>>,
      <<NilImage, SmallImage, NilImage, NilImage, NilImage, NilImage>> }

Percents == {50, 200}

IsDisplay(c) == c >= DisplayTopLeft /\ c <= DisplayBottomRight

\* the error a command operation returns for the result of a transfer
ErrorOf(res) ==
    CASE res = "ok" -> "nil"
      [] res = "short" -> "short write"
      [] OTHER -> "transfer failed"

\* the check of sendImage on img.Bounds().Max
ValidSize(img) == img.maxX = ImageSize /\ img.maxY = ImageSize

\* the conversion uint16(x)
uint16(x) == x % 65536

\* imageSize := uint16(len(jpg)) and the arguments of BAT
BATArgs(img, index) ==
    LET imageSize == uint16(img.jpgLen)
    IN  <<imageSize \div 256, imageSize % 256, index>>

\* what epOut.WriteContext(ctx, jpg) returns for len(jpg) = len: all bytes,
\* all but one or none without an error, or an error
PayloadWrites(len) ==
    IF faults < MaxFaults
    THEN {[n |-> len, err |-> FALSE], [n |-> len - 1, err |-> FALSE],
          [n |-> 0, err |-> FALSE], [n |-> 0, err |-> TRUE]}
    ELSE {[n |-> len, err |-> FALSE]}

\* the result of a write of len bytes as the log of transfers has it
ResultOf(w, len) ==
    CASE w.err -> "err"
      [] w.n < len -> "short"
      [] OTHER -> "ok"

Ready(t) ==
    /\ Running /\ pc[t] = "ready" /\ openErr = "ok"
    /\ ops < MaxOps

\* a running operation: its name and where the log of transfers stood when it
\* was called
Op(name) == [op |-> name, from |-> Len(out)]

CallClose(t) ==
    /\ Ready(t)
    /\ pc' = [pc EXCEPT ![t] = "Close"]
    /\ after' = "user"
    /\ ops' = ops + 1
    /\ UNCHANGED <<openVars, devVars, pollVars, decVars, encVars, argVars>>
    /\ UNCHANGED <<cur, ret, closeCalls, ticks, faults>>

\* a SetBrightness that passes percent on as it is
SetBrightness_NoClamp(t, P) ==
    /\ Ready(t)
    /\ \E percent \in P, res \in Results :
        /\ sendCRTCommand("SetBrightness", "LIG", <<percent>>, res)
        /\ ret' = ErrorOf(res)
    /\ ops' = ops + 1
    /\ UNCHANGED openVars
    /\ UNCHANGED <<usb, config, intf0, epIn, epOut, closed, closeCount, rel>>
    /\ UNCHANGED <<pc, after, cur, closeCalls, ticks>>
    /\ UNCHANGED <<pollVars, decVars, encVars, argVars>>

\* SetBrightness(percent) for a percent of P
SetBrightness(t, P) ==
    /\ Ready(t)
    /\ \E percent \in P, res \in Results :
        /\ sendCRTCommand("SetBrightness", "LIG",
                          <<IF percent > 100 THEN 100 ELSE percent>>, res)
        /\ ret' = ErrorOf(res)
    /\ ops' = ops + 1
    /\ UNCHANGED openVars
    /\ UNCHANGED <<usb, config, intf0, epIn, epOut, closed, closeCount, rel>>
    /\ UNCHANGED <<pc, after, cur, closeCalls, ticks>>
    /\ UNCHANGED <<pollVars, decVars, encVars, argVars>>

\* Clear: CLE, then STP if CLE was sent
Clear(t) ==
    /\ Ready(t)
    /\ \E res \in Results :
        /\ sendCRTCommand("Clear", "CLE", <<0, 255>>, res)
        /\ IF res = "ok"
           THEN /\ pc' = [pc EXCEPT ![t] = "op STP"]
                /\ cur' = Op("Clear")
                /\ ret' = ret
           ELSE /\ ret' = ErrorOf(res)
                /\ UNCHANGED <<pc, cur>>
    /\ ops' = ops + 1
    /\ UNCHANGED openVars
    /\ UNCHANGED <<usb, config, intf0, epIn, epOut, closed, closeCount, rel>>
    /\ UNCHANGED <<after, closeCalls, ticks>>
    /\ UNCHANGED <<pollVars, decVars, encVars, argVars>>

\* the first half of sendImage(index, img) for the operation op: the check of
\* the size, the encoding and the BAT command
sendImage(t, op, index, img, next) ==
    IF ~ValidSize(img)
    THEN /\ ret' = "invalid image size"
         /\ pc' = [pc EXCEPT ![t] = "ready"]
         /\ cur' = NoOp
         /\ UNCHANGED <<out, faults, panicked>>
    ELSE \E res \in Results :
         /\ sendCRTCommand(op, "BAT", BATArgs(img, index), res)
         /\ IF res = "ok"
            THEN /\ pc' = [pc EXCEPT ![t] = "payload"]
                 /\ cur' = next
                 /\ ret' = ret
            ELSE /\ ret' = ErrorOf(res)
                 /\ pc' = [pc EXCEPT ![t] = "ready"]
                 /\ cur' = NoOp

\* SetImage(display, img) for an image of I
SetImage(t, I) ==
    /\ Ready(t)
    /\ \E display \in {DisplayTopCenter, ButtonLeft}, img \in I :
        IF ~IsDisplay(display)
        THEN /\ ret' = "not a display"
             /\ UNCHANGED <<pc, cur, out, faults, panicked>>
        ELSE sendImage(t, "SetImage", display, img,
                       [op |-> "SetImage", from |-> Len(out), img |-> img])
    /\ ops' = ops + 1
    /\ UNCHANGED openVars
    /\ UNCHANGED <<usb, config, intf0, epIn, epOut, closed, closeCount, rel>>
    /\ UNCHANGED <<after, closeCalls, ticks>>
    /\ UNCHANGED <<pollVars, decVars, encVars, argVars>>

\* SetImages(imgs) for an array of A: CLE first
SetImages(t, A) ==
    /\ Ready(t)
    /\ \E imgs \in A, res \in Results :
        /\ sendCRTCommand("SetImages", "CLE", <<0, 255>>, res)
        /\ IF res = "ok"
           THEN /\ pc' = [pc EXCEPT ![t] = "range imgs"]
                /\ cur' = [op |-> "SetImages", from |-> Len(out), imgs |-> imgs, i |-> 1]
                /\ ret' = ret
           ELSE /\ ret' = ErrorOf(res)
                /\ UNCHANGED <<pc, cur>>
    /\ ops' = ops + 1
    /\ UNCHANGED openVars
    /\ UNCHANGED <<usb, config, intf0, epIn, epOut, closed, closeCount, rel>>
    /\ UNCHANGED <<after, closeCalls, ticks>>
    /\ UNCHANGED <<pollVars, decVars, encVars, argVars>>

\* a loop that takes the last image of the array that is left
SetImagesNext_Descending(t) ==
    /\ Running /\ pc[t] = "range imgs"
    /\ LET rest == {j \in cur.i..Len(cur.imgs) : ~cur.imgs[j].nil} IN
        IF rest = {}
        THEN /\ pc' = [pc EXCEPT ![t] = "op STP"]
             /\ UNCHANGED <<cur, ret, out, faults, panicked>>
        ELSE LET j == CHOOSE j \in rest : \A k \in rest : j >= k IN
             sendImage(t, "SetImages", j, cur.imgs[j],
                       [op |-> "SetImages", from |-> cur.from, imgs |-> cur.imgs,
                        i |-> j, img |-> cur.imgs[j]])
    /\ UNCHANGED openVars
    /\ UNCHANGED <<usb, config, intf0, epIn, epOut, closed, closeCount, rel>>
    /\ UNCHANGED <<after, ops, closeCalls, ticks>>
    /\ UNCHANGED <<pollVars, decVars, encVars, argVars>>

\* the loop of SetImages from index cur.i on: nil images are skipped, the next
\* image is sent with index i (uint8(i+1) for the 0-based i of the code)
SetImagesNext(t) ==
    /\ Running /\ pc[t] = "range imgs"
    /\ LET rest == {j \in cur.i..Len(cur.imgs) : ~cur.imgs[j].nil} IN
        IF rest = {}
        THEN /\ pc' = [pc EXCEPT ![t] = "op STP"]
             /\ UNCHANGED <<cur, ret, out, faults, panicked>>
        ELSE LET j == CHOOSE j \in rest : \A k \in rest : j <= k IN
             sendImage(t, "SetImages", j, cur.imgs[j],
                       [op |-> "SetImages", from |-> cur.from, imgs |-> cur.imgs,
                        i |-> j, img |-> cur.imgs[j]])
    /\ UNCHANGED openVars
    /\ UNCHANGED <<usb, config, intf0, epIn, epOut, closed, closeCount, rel>>
    /\ UNCHANGED <<after, ops, closeCalls, ticks>>
    /\ UNCHANGED <<pollVars, decVars, encVars, argVars>>

\* the second write of sendImage: n, err := d.epOut.WriteContext(ctx, jpg)
\* returned w
writePayload(op, jpgLen, w) ==
    /\ out' = Append(out, Transfer(op, "JPG", <<jpgLen>>, ResultOf(w, jpgLen)))
    /\ faults' = IF ResultOf(w, jpgLen) = "ok" THEN faults ELSE faults + 1
    /\ panicked' = panicked

\* the second half of sendImage: the encoded image is written; an error is
\* returned, and so is n < int(imageSize) for the imageSize of the BAT command
SendPayload(t) ==
    /\ Running /\ pc[t] = "payload"
    /\ \E w \in PayloadWrites(cur.img.jpgLen) :
        /\ writePayload(cur.op, cur.img.jpgLen, w)
        /\ IF w.err \/ w.n < uint16(cur.img.jpgLen)
           THEN /\ ret' = IF w.err THEN "transfer failed" ELSE "short write"
                /\ pc' = [pc EXCEPT ![t] = "ready"]
                /\ cur' = NoOp
           ELSE /\ ret' = ret
                /\ IF cur.op = "SetImages"
                   THEN /\ pc' = [pc EXCEPT ![t] = "range imgs"]
                        /\ cur' = [op |-> "SetImages", from |-> cur.from,
                                   imgs |-> cur.imgs, i |-> cur.i + 1]
                   ELSE /\ pc' = [pc EXCEPT ![t] = "op STP"]
                        /\ cur' = cur
    /\ UNCHANGED openVars
    /\ UNCHANGED <<usb, config, intf0, epIn, epOut, closed, closeCount, rel>>
    /\ UNCHANGED <<after, ops, closeCalls, ticks>>
    /\ UNCHANGED <<pollVars, decVars, encVars, argVars>>

\* return d.sendCRTCommand(ctx, "STP") of Clear, SetImage and SetImages
SendSTP(t) ==
    /\ Running /\ pc[t] = "op STP"
    /\ \E res \in Results :
        /\ sendCRTCommand(cur.op, "STP", <<>>, res)
        /\ ret' = ErrorOf(res)
    /\ pc' = [pc EXCEPT ![t] = "ready"]
    /\ cur' = NoOp
    /\ UNCHANGED openVars
    /\ UNCHANGED <<usb, config, intf0, epIn, epOut, closed, closeCount, rel>>
    /\ UNCHANGED <<after, ops, closeCalls, ticks>>
    /\ UNCHANGED <<pollVars, decVars, encVars, argVars>>

(***************************************************************************)
(* ReadEvents: the channel events and the polling goroutine.  The model    *)
(* follows one polling goroutine and its consumer.                         *)
(***************************************************************************)
Report(n, code, state) == [err |-> FALSE, n |-> n, code |-> code, state |-> state]

\* reports beside those of the control code under test: a press and a short
\* report
SampleReports ==
    { Report(MinReportLen, displayTopLeft, Pressed),
      Report(CodeOffset, knobTop, Pressed) }

\* ReadEvents makes a channel, starts a polling goroutine and returns the
\* channel and nil, on every call; the model follows the goroutine and the
\* channel of the first call and counts the others
ReadEvents(t) ==
    /\ Ready(t)
    /\ pollers' = pollers + 1
    /\ ret' = "nil"
    /\ IF events = "nil"
       THEN /\ events' = "open"
            /\ consumer' = "receiving"
            /\ pc' = [pc EXCEPT !["poll"] = "select"]
       ELSE UNCHANGED <<events, consumer, pc>>
    /\ ops' = ops + 1
    /\ UNCHANGED <<openVars, devVars, decVars, encVars, argVars>>
    /\ UNCHANGED <<after, cur, closeCalls, ticks, faults>>
    /\ UNCHANGED <<buf, reports, pending, delivered, reads>>

\* case <-d.closed: return, with the deferred close(events)
PollClosed ==
    /\ Running /\ pc["poll"] = "select"
    /\ closed
    /\ IF events = "closed"
       THEN panicked' = TRUE /\ events' = events
       ELSE panicked' = panicked /\ events' = "closed"
    /\ pc' = [pc EXCEPT !["poll"] = "done"]
    /\ UNCHANGED <<openVars, decVars, encVars, argVars>>
    /\ UNCHANGED <<usb, config, intf0, epIn, epOut, closed, closeCount, rel, out>>
    /\ UNCHANGED <<after, cur, ret, ops, closeCalls, ticks, faults>>
    /\ UNCHANGED <<buf, reports, pending, delivered, reads, consumer, pollers>>

\* case <-tick.C:
PollTick ==
    /\ Running /\ pc["poll"] = "select"
    /\ reads < MaxReads
    /\ pc' = [pc EXCEPT !["poll"] = "ReadContext"]
    /\ UNCHANGED <<openVars, devVars, decVars, encVars, argVars>>
    /\ UNCHANGED <<after, cur, ret, ops, closeCalls, ticks, faults>>
    /\ UNCHANGED pollVars

\* the bytes 9 and 10 of buf after n bytes of a report were read into it
ReadInto(b, r) ==
    [code |-> IF r.n > CodeOffset THEN r.code ELSE b.code,
     state |-> IF r.n > StateOffset THEN r.state ELSE b.state]

\* a polling goroutine that hands the result of newEvent on whatever it is
PollRead_SendsAll(R) ==
    /\ Running /\ pc["poll"] = "ReadContext"
    /\ reads' = reads + 1
    /\ \E r \in R \cup {NoReport} :
        /\ reports' = Append(reports, r)
        /\ IF r.err
           THEN /\ pc' = [pc EXCEPT !["poll"] = "select"]
                /\ UNCHANGED <<buf, pending>>
           ELSE /\ buf' = ReadInto(buf, r)
                /\ pending' = newEvent(buf'.code, buf'.state)
                /\ pc' = [pc EXCEPT !["poll"] = "events <- event"]
    /\ UNCHANGED <<openVars, devVars, decVars, encVars, argVars>>
    /\ UNCHANGED <<after, cur, ret, ops, closeCalls, ticks, faults>>
    /\ UNCHANGED <<events, delivered, consumer, pollers>>

\* n, err := d.epIn.ReadContext(ctx, buf); on an error the loop goes on;
\* otherwise newEvent(hwControl(buf[9]), buf[10]) and, if it decoded, the send
PollRead(R) ==
    /\ Running /\ pc["poll"] = "ReadContext"
    /\ reads' = reads + 1
    /\ \E r \in R \cup {NoReport} :
        /\ reports' = Append(reports, r)
        /\ IF r.err
           THEN /\ pc' = [pc EXCEPT !["poll"] = "select"]
                /\ UNCHANGED <<buf, pending>>
           ELSE /\ buf' = ReadInto(buf, r)
                /\ LET event == newEvent(buf'.code, buf'.state) IN
                   IF ~event.err
                   THEN /\ pending' = event
                        /\ pc' = [pc EXCEPT !["poll"] = "events <- event"]
                   ELSE /\ pending' = pending
                        /\ pc' = [pc EXCEPT !["poll"] = "select"]
    /\ UNCHANGED <<openVars, devVars, decVars, encVars, argVars>>
    /\ UNCHANGED <<after, cur, ret, ops, closeCalls, ticks, faults>>
    /\ UNCHANGED <<events, delivered, consumer, pollers>>

\* the reports the device sends: the sample reports and a complete report of
\* the control code rawCode
ReportsOf(code) ==
    SampleReports \cup { Report(MinReportLen, code, Pressed) }

PollReadReports == PollRead(ReportsOf(rawCode))

\* events <- event: the channel is unbuffered, the send completes when the
\* consumer receives
Deliver ==
    /\ Running /\ pc["poll"] = "events <- event"
    /\ consumer = "receiving"
    /\ delivered' = Append(delivered, pending)
    /\ pending' = NoEvent
    /\ pc' = [pc EXCEPT !["poll"] = "select"]
    /\ UNCHANGED <<openVars, devVars, decVars, encVars, argVars>>
    /\ UNCHANGED <<after, cur, ret, ops, closeCalls, ticks, faults>>
    /\ UNCHANGED <<events, buf, reports, reads, consumer, pollers>>

\* the consumer leaves its receive loop (cmd/main.go: case <-ctx.Done(): return)
ConsumerStop ==
    /\ Running /\ consumer = "receiving"
    /\ consumer' = "stopped"
    /\ UNCHANGED <<openVars, devVars, decVars, thrVars, encVars, argVars>>
    /\ UNCHANGED <<events, buf, reports, pending, delivered, reads, pollers>>

(***************************************************************************)
(* Decoding on its own: newEvent applied to a control code and a state.    *)
(***************************************************************************)
Decode ==
    /\ decoded = <<>>
    /\ decoded' = <<newEvent(rawCode, rawState)>>
    /\ UNCHANGED <<rawCode, rawState>>
    /\ UNCHANGED <<openVars, devVars, thrVars, pollVars, encVars, argVars>>

(***************************************************************************)
(* The packet of sendCRTCommand on its own: the bytes built for a command  *)
(* name and its arguments and handed to epOut.WriteContext.                *)
(***************************************************************************)
\* []byte(s) for the strings the driver puts into a packet
Ascii(s) ==
    CASE s = "CRT" -> <<67, 82, 84>>
      [] s = "DIS" -> <<68, 73, 83>>
      [] s = "CONNECT" -> <<67, 79, 78, 78, 69, 67, 84>>
      [] s = "CLE" -> <<67, 76, 69>>
      [] s = "STP" -> <<83, 84, 80>>
      [] s = "LIG" -> <<76, 73, 71>>
      [] s = "BAT" -> <<66, 65, 84>>

\* the command names the driver sends
Commands == {"DIS", "CONNECT", "CLE", "STP", "LIG", "BAT"}

\* a command with one zero byte after the prefix and after the name
cmdBytes_OneZero(name, args) ==
    Ascii("CRT") \o <<0>> \o Ascii(name) \o <<0>> \o args

\* cmdBytes: prefix, 0, 0, cmd, 0, 0, args
cmdBytes(name, args) ==
    Ascii("CRT") \o <<0, 0>> \o Ascii(name) \o <<0, 0>> \o args

\* outbuf := make([]byte, size); copy(outbuf, bytes): copy stops at the
\* shorter of the two
outbuf(size, bytes) ==
    [i \in 1..size |-> IF i <= Len(bytes) THEN bytes[i] ELSE 0]

\* one call of sendCRTCommand(cmdName, cmdArgs) whose transfer writes all the
\* bytes it is given
Encode ==
    /\ Len(sent) < Encodings
    /\ sent' = Append(sent, [packet |-> outbuf(packetSize, cmdBytes(cmdName, cmdArgs)),
                             err |-> "nil"])
    /\ UNCHANGED <<packetSize, cmdName, cmdArgs>>
    /\ UNCHANGED <<openVars, devVars, thrVars, pollVars, decVars, argVars>>

(***************************************************************************)
(* Specifications.                                                         *)
(***************************************************************************)
\* before Open
InitDevice ==
    /\ handles = <<>> /\ found = 0 /\ openErr = ""
    /\ usb = "nil" /\ config = "nil" /\ intf0 = "nil"
    /\ epIn = FALSE /\ epOut = FALSE
    /\ closed = FALSE /\ closeCount = 0
    /\ rel = <<>> /\ out = <<>> /\ panicked = FALSE
    /\ pc = [t \in Threads |-> IF t = "main" THEN "Open" ELSE "idle"]
    /\ after = "" /\ cur = NoOp /\ ret = "nil"
    /\ ops = 0 /\ closeCalls = 0 /\ ticks = 0 /\ faults = 0

InitPoll ==
    /\ events = "nil" /\ buf = [code |-> 0, state |-> 0]
    /\ reports = <<>> /\ pending = NoEvent
    /\ delivered = <<>> /\ reads = 0 /\ consumer = "idle"
    /\ pollers = 0

InitDecode ==
    /\ rawCode = 0 /\ rawState = 0 /\ decoded = <<>>

InitEncode ==
    /\ packetSize = 64 /\ cmdName = "STP" /\ cmdArgs = <<>> /\ sent = <<>>

InitArgs ==
    /\ brightness = 0
    /\ images = [i \in 1..6 |-> NilImage]

\* the session of one device
Init ==
    /\ serial = "A" /\ devices = <<"A">>
    /\ InitDevice /\ InitPoll /\ InitDecode /\ InitEncode /\ InitArgs

OpenNext ==
    \/ OpenDevices
    \/ OpenSelect
    \/ SetAutoDetach
    \/ Reset
    \/ setupEndpoints
    \/ initDIS
    \/ initCONNECT
    \/ goKeepAlive

CloseNext ==
    \/ CloseSelect("main")
    \/ CloseSignal("main")
    \/ CloseCLE("main")
    \/ CloseSTP("main")
    \/ CloseIntf("main")
    \/ CloseConfig("main")
    \/ CloseDevice("main")
    \/ CloseUsb("main")

KeepAliveNext ==
    \/ KeepAliveClosed
    \/ KeepAliveTick
    \/ KeepAliveSend

PollNext ==
    \/ PollClosed
    \/ PollTick
    \/ PollReadReports
    \/ Deliver
    \/ ConsumerStop

\* the session of one device: Open, the keep-alive, Close
Next ==
    \/ OpenNext
    \/ CallClose("main")
    \/ CloseNext
    \/ KeepAliveNext

Spec == Init /\ [][Next]_vars

\* Open alone, for every list of devices and every serial
InitOpen ==
    /\ serial \in Serials \cup {""}
    /\ devices \in SeqsUpTo(Serials \cup {SerialErr}, MaxDevices)
    /\ InitDevice /\ InitPoll /\ InitDecode /\ InitEncode /\ InitArgs

NextOpen ==
    \/ OpenNext
    \/ CloseNext

SpecOpen == InitOpen /\ [][NextOpen]_vars

\* the session of one device with the command operations
NextCommands ==
    \/ OpenNext
    \/ CallClose("main")
    \/ CloseNext
    \/ KeepAliveNext
    \/ SetBrightness("main", Percents)
    \/ Clear("main")
    \/ SetImage("main", Images)
    \/ SetImages("main", ImageArrays)
    \/ SetImagesNext("main")
    \/ SendPayload("main")
    \/ SendSTP("main")

SpecCommands == Init /\ [][NextCommands]_vars

\* the session of one device with the event stream, for a device that sends
\* reports of one control code: each code the decoder knows, the codes next
\* to them and the ends of the range
TestCodes ==
    {0, MaxUint8} \cup (displayTopLeft..displayBottomRight + 1)
        \cup (buttonLeft - 1..buttonLeft + 1)
        \cup (buttonCenter - 1..knobTop + 1)
        \cup (knobTopCCW - 1..knobTopCW + 1)
        \cup (knobBottomRightCCW - 1..knobBottomRightCW + 1)
        \cup (knobBottomLeftCCW - 1..knobBottomLeftCW + 1)

InitEvents ==
    /\ serial = "A" /\ devices = <<"A">>
    /\ rawCode \in TestCodes /\ rawState = 0 /\ decoded = <<>>
    /\ InitDevice /\ InitPoll /\ InitEncode /\ InitArgs

\* the caller calls ReadEvents once, as its comment asks
ReadEventsOnce ==
    events = "nil" /\ ReadEvents("main")

NextEvents ==
    \/ OpenNext
    \/ CallClose("main")
    \/ CloseNext
    \/ KeepAliveClosed
    \/ ReadEventsOnce
    \/ PollNext

SpecEvents == InitEvents /\ [][NextEvents]_vars

\* the same session for one control code, with the scheduling of the Go
\* runtime: a goroutine that can take a step takes it, a read returns, a send
\* completes while the consumer receives, and a select that is entered again
\* and again with d.closed ready takes that case.  The caller and the consumer
\* are free to do nothing, and so is the ticker.
InitEventsOne ==
    InitEvents /\ rawCode = knobTopCW

Fairness ==
    /\ WF_vars(OpenNext)
    /\ WF_vars(CloseNext)
    /\ WF_vars(KeepAliveClosed)
    /\ WF_vars(PollReadReports)
    /\ WF_vars(Deliver)
    /\ SF_vars(PollClosed)

FairSpecEvents == InitEventsOne /\ [][NextEvents]_vars /\ Fairness

\* the steps of Device.Close run by the caller t
CloseSteps(t) ==
    \/ CloseSelect(t)
    \/ CloseSignal(t)
    \/ CloseCLE(t)
    \/ CloseSTP(t)
    \/ CloseIntf(t)
    \/ CloseConfig(t)
    \/ CloseDevice(t)
    \/ CloseUsb(t)

\* the opened Device with two goroutines of the caller that may call Close
InitTwoCallers ==
    /\ serial = "A" /\ devices = <<"A">>
    /\ handles = <<"open">> /\ found = 1 /\ openErr = "ok"
    /\ usb = "open" /\ config = "open" /\ intf0 = "open"
    /\ epIn = TRUE /\ epOut = TRUE
    /\ closed = FALSE /\ closeCount = 0
    /\ rel = <<>> /\ panicked = FALSE
    /\ out = <<Transfer("Open", "DIS", <<>>, "ok"), Transfer("Open", "CONNECT", <<>>, "ok")>>
    /\ pc = [t \in Threads |-> CASE t \in {"main", "second"} -> "ready"
                                 [] t = "keepAlive" -> "select"
                                 [] OTHER -> "idle"]
    /\ after = "" /\ cur = NoOp /\ ret = "nil"
    /\ ops = 0 /\ closeCalls = 0 /\ ticks = 0 /\ faults = 0
    /\ InitPoll /\ InitDecode /\ InitEncode /\ InitArgs

NextTwoCallers ==
    \/ CallClose("main")
    \/ CallClose("second")
    \/ CloseSteps("main")
    \/ CloseSteps("second")
    \/ KeepAliveClosed

SpecTwoCallers == InitTwoCallers /\ [][NextTwoCallers]_vars

\* the same session with a caller that calls ReadEvents as often as it likes
NextReadEvents ==
    \/ OpenNext
    \/ CallClose("main")
    \/ CloseNext
    \/ KeepAliveClosed
    \/ ReadEvents("main")
    \/ PollNext

SpecReadEvents == InitEventsOne /\ [][NextReadEvents]_vars

\* newEvent alone, for every control code and every state
InitDecodeAll ==
    /\ rawCode \in Bytes /\ rawState \in Bytes /\ decoded = <<>>
    /\ serial = "" /\ devices = <<>>
    /\ InitDevice /\ InitPoll /\ InitEncode /\ InitArgs

NextDecode == Decode

SpecDecode == InitDecodeAll /\ [][NextDecode]_vars

\* sendCRTCommand alone, for every command name, argument lists up to
\* MaxArgs bytes and endpoints of several packet sizes
PacketSizes == {8, 16, 64}

ArgBytes == {0, 1, MaxUint8}

InitEncodeAll ==
    /\ packetSize \in PacketSizes
    /\ cmdName \in Commands
    /\ cmdArgs \in SeqsUpTo(ArgBytes, MaxArgs)
    /\ sent = <<>>
    /\ serial = "" /\ devices = <<>>
    /\ InitDevice /\ InitPoll /\ InitDecode /\ InitArgs

NextEncode == Encode

SpecEncode == InitEncodeAll /\ [][NextEncode]_vars

\* the session after Open has returned the Device: everything acquired, DIS
\* and CONNECT written, keepAlive started
InitReady ==
    /\ serial = "A" /\ devices = <<"A">>
    /\ handles = <<"open">> /\ found = 1 /\ openErr = "ok"
    /\ usb = "open" /\ config = "open" /\ intf0 = "open"
    /\ epIn = TRUE /\ epOut = TRUE
    /\ closed = FALSE /\ closeCount = 0
    /\ rel = <<>> /\ panicked = FALSE
    /\ out = <<Transfer("Open", "DIS", <<>>, "ok"), Transfer("Open", "CONNECT", <<>>, "ok")>>
    /\ pc = [t \in Threads |-> CASE t = "main" -> "ready"
                                 [] t = "keepAlive" -> "select"
                                 [] OTHER -> "idle"]
    /\ after = "" /\ cur = NoOp /\ ret = "nil"
    /\ ops = 0 /\ closeCalls = 0 /\ ticks = 0 /\ faults = 0
    /\ InitPoll /\ InitDecode /\ InitEncode

\* the opened Device whose caller sets the brightness, for every percent
InitBrightness ==
    /\ InitReady
    /\ brightness \in Bytes
    /\ images = [i \in 1..6 |-> NilImage]

NextBrightness ==
    SetBrightness("main", {brightness})

SpecBrightness == InitBrightness /\ [][NextBrightness]_vars

\* the image of slot i of an array: 64x64 pixels, its encoding has a length of
\* its own
SlotImage(i) == Image(0, 0, ImageSize, ImageSize, 700 + i)

\* every array of six images, each nil or a valid image
ValidArrays ==
    { [i \in 1..6 |-> IF i \in S THEN SlotImage(i) ELSE NilImage] : S \in SUBSET (1..6) }

\* the opened Device whose caller sets all images, for every array of
\* ValidArrays
InitSetImages ==
    /\ InitReady
    /\ brightness = 0
    /\ images \in ValidArrays

NextSetImages ==
    \/ SetImages("main", {images})
    \/ SetImagesNext("main")
    \/ SendPayload("main")
    \/ SendSTP("main")

SpecSetImages == InitSetImages /\ [][NextSetImages]_vars

\* the opened Device whose caller uploads images of all kinds
TestImages == {GoodImage, SmallImage, OffsetImage, BigImage}

TestArrays ==
    { <<GoodImage, NilImage, SmallImage, NilImage, NilImage, NilImage>>,
      <<NilImage, NilImage, NilImage, NilImage, NilImage, BigImage>> }

InitImages ==
    /\ InitReady /\ InitArgs

NextImages ==
    \/ Clear("main")
    \/ SetImage("main", TestImages)
    \/ SetImages("main", TestArrays)
    \/ SetImagesNext("main")
    \/ SendPayload("main")
    \/ SendSTP("main")
    \/ KeepAliveTick
    \/ KeepAliveSend

SpecImages == InitImages /\ [][NextImages]_vars

(***************************************************************************)
(* Properties.                                                             *)
(***************************************************************************)
\* the commands of the transfers an operation made, in order
CommandsOf(op) ==
    LET mine == SelectSeq(out, LAMBDA x : x.op = op)
    IN  [i \in 1..Len(mine) |-> mine[i].cmd]

\* interface, config, device handle and USB context are released
AllReleased ==
    /\ intf0 = "closed" /\ config = "closed"
    /\ found # 0 /\ handles[found] = "closed"
    /\ usb = "closed"

\* C1: on an opened Device, once a call of Close has returned, the signal was
\* closed once, Close wrote CLE and STP once and released interface, config,
\* device and context once, however many calls of Close follow.
C1_CloseIdempotent ==
    (openErr = "ok" /\ (closeCalls >= 1 \/ rel # <<>>)) =>
        /\ closeCount = 1
        /\ CommandsOf("Close") \in {<<"CLE", "STP">>}
        /\ rel \in {<<"intf0">>, <<"intf0", "config">>, <<"intf0", "config", "device">>,
                    <<"intf0", "config", "device", "usb">>}
        /\ closeCalls >= 1 => (rel = <<"intf0", "config", "device", "usb">> /\ AllReleased)
        /\ ~panicked

\* two calls of Close on an opened Device have returned
C1_Witness ==
    openErr = "ok" /\ closeCalls >= 2

\* C2: when setupEndpoints fails, Open returns the error "cannot setup
\* endpoints" with interface, config, device and context released (those that
\* were acquired), and the failure path does not panic.
C2_SetupFailureReleases ==
    /\ after = "cannot setup endpoints" => ~panicked
    /\ openErr = "cannot setup endpoints" =>
        /\ intf0 # "open" /\ config # "open"
        /\ handles[found] = "closed" /\ usb = "closed"

InitTransfers == SelectSeq(out, LAMBDA x : x.op = "Open")

InitSucceeded ==
    InitTransfers = <<Transfer("Open", "DIS", <<>>, "ok"),
                      Transfer("Open", "CONNECT", <<>>, "ok")>>

InitFailed ==
    \/ /\ Len(InitTransfers) = 1
       /\ InitTransfers[1].cmd = "DIS" /\ InitTransfers[1].res # "ok"
    \/ /\ Len(InitTransfers) = 2
       /\ InitTransfers[1] = Transfer("Open", "DIS", <<>>, "ok")
       /\ InitTransfers[2].cmd = "CONNECT" /\ InitTransfers[2].res # "ok"

\* C3: DIS and then CONNECT are written before keepAlive is started, which is
\* started if and only if both were written in full; when one of them fails
\* Open returns "cannot initialize device", everything is released and
\* keepAlive never runs.
C3_InitBeforeKeepAlive ==
    /\ pc["keepAlive"] # "idle" =>
        /\ InitSucceeded
        /\ Len(out) >= 2 /\ out[1].cmd = "DIS" /\ out[2].cmd = "CONNECT"
    /\ openErr = "ok" => pc["keepAlive"] # "idle"
    /\ (InitSucceeded /\ pc["main"] \notin {"go keepAlive"}) => pc["keepAlive"] # "idle"
    /\ openErr = "cannot initialize device" =>
        /\ InitFailed
        /\ AllReleased
        /\ pc["keepAlive"] = "idle" /\ ticks = 0
    /\ (InitFailed /\ pc["main"] = "failed") => openErr = "cannot initialize device"

\* Open returned the initialization error after DIS was written and CONNECT
\* failed
C3_Witness ==
    /\ openErr = "cannot initialize device"
    /\ Len(InitTransfers) = 2

Matches(ser) ==
    {i \in 1..Len(devices) : ser = "" \/ devices[i] = ser}

FirstMatch(ser) ==
    IF Matches(ser) = {} THEN 0
    ELSE CHOOSE i \in Matches(ser) : \A j \in Matches(ser) : i <= j

\* C4: Open selects the first device when serial is empty, else the first
\* device whose serial number is serial; when Open returns every other
\* device is closed, and when none is selected the error is "cannot find
\* device" and the context is closed.
C4_SelectsFirstMatch ==
    openErr # "" =>
        /\ openErr # "cannot find device: <err>" => found = FirstMatch(serial)
        /\ \A i \in 1..Len(devices) : i # found => handles[i] = "closed"
        /\ found = 0 =>
            /\ openErr \in {"cannot find device", "cannot find device: <err>"}
            /\ usb = "closed"

\* Open returned with the second of two devices selected by its serial
C4_Witness ==
    /\ openErr = "ok" /\ serial # ""
    /\ Len(devices) = 2 /\ found = 2 /\ handles = <<"closed", "open">>

\* C5: keepAlive writes no CONNECT once d.closed is closed.
C5_NoHeartbeatAfterClose ==
    [][(/\ Len(out') = Len(out) + 1
        /\ out'[Len(out')].op = "keepAlive") => ~closed]_vars

\* C6: the channel events is closed once, when d.closed is closed: not before,
\* not twice, and eventually after it.
C6_EventStreamClosedOnce ==
    /\ [](events = "closed" => closed)
    /\ [][events = "closed" => events' = "closed"]_vars
    /\ (closed /\ events = "open") ~> (events = "closed")

\* C7: no transfer comes between a BAT command and the image that follows it.
C7_ImageWriteAtomic ==
    \A i \in 1..Len(out) - 1 :
        (out[i].cmd = "BAT" /\ out[i].res = "ok") => out[i + 1].cmd = "JPG"

PressCodes ==
    (displayTopLeft..displayBottomRight)
        \cup {buttonLeft, buttonCenter, buttonRight, knobTop, knobBottomLeft, knobBottomRight}

PressControl(code) ==
    CASE code = 1 -> DisplayTopLeft
      [] code = 2 -> DisplayTopCenter
      [] code = 3 -> DisplayTopRight
      [] code = 4 -> DisplayBottomLeft
      [] code = 5 -> DisplayBottomCenter
      [] code = 6 -> DisplayBottomRight
      [] code = 37 -> ButtonLeft
      [] code = 48 -> ButtonCenter
      [] code = 49 -> ButtonRight
      [] code = 53 -> KnobTop
      [] code = 51 -> KnobBottomLeft
      [] code = 52 -> KnobBottomRight

\* C8: a press code decodes to its control with Pressed when the state is the
\* active value (1) and with Released otherwise.
C8_PressDecoding ==
    (decoded # <<>> /\ rawCode \in PressCodes) =>
        decoded[1] = [err |-> FALSE, Control |-> PressControl(rawCode),
                      Action |-> IF rawState = 1 THEN Pressed ELSE Released]

RotationCodes == {80, 81, 96, 97, 144, 145}

RotationKnob(code) ==
    CASE code \in {80, 81} -> KnobTop
      [] code \in {96, 97} -> KnobBottomRight
      [] code \in {144, 145} -> KnobBottomLeft

\* C9: the odd code of a knob decodes to that knob with TurnedCW, the even
\* one to that knob with TurnedCCW, whatever the state.
C9_RotationParity ==
    (decoded # <<>> /\ rawCode \in RotationCodes) =>
        decoded[1] = [err |-> FALSE, Control |-> RotationKnob(rawCode),
                      Action |-> IF rawCode \in {81, 97, 145} THEN TurnedCW ELSE TurnedCCW]

\* the clockwise code of the bottom left knob was decoded with a state of 255
C9_Witness ==
    decoded # <<>> /\ rawCode = 145 /\ rawState = 255

KnownCodes == PressCodes \cup RotationCodes

UnknownCodesFail ==
    \A c \in Bytes \ KnownCodes, s \in Bytes : newEvent(c, s).err

Complete(r) == ~r.err /\ r.n >= MinReportLen

CountOf(P(_)) == Cardinality({i \in 1..Len(reports) : P(reports[i])})

IsUnknown(r) == Complete(r) /\ r.code \notin KnownCodes
IsKnown(r) == Complete(r) /\ r.code \in KnownCodes
IsShort(r) == ~r.err /\ r.n < MinReportLen

Sending == IF pc["poll"] = "events <- event" THEN 1 ELSE 0

\* C10: a control code outside the 18 known ones does not decode, for any
\* state; the polling goroutine sends no event for a report with such a code,
\* hands no error to the consumer, and goes on: it ends only when d.closed is
\* closed, and every complete report with a known code gives an event.
C10_UnknownDropped ==
    /\ UnknownCodesFail
    /\ (reports # <<>> /\ IsUnknown(reports[Len(reports)])) => Sending = 0
    /\ Len(delivered) + Sending >= CountOf(IsKnown)
    /\ Len(delivered) + Sending <= CountOf(IsKnown) + CountOf(IsShort)
    /\ \A i \in 1..Len(delivered) : ~delivered[i].err
    /\ pc["poll"] = "done" => closed

\* after a report with an unknown code, the event of the next report was
\* received
C10_Witness ==
    /\ Len(reports) = 2
    /\ IsUnknown(reports[1]) /\ IsKnown(reports[2])
    /\ Len(delivered) = 1

\* prefix + 2 + command name + 2 + args is within the packet size
Fits ==
    3 + 2 + Len(Ascii(cmdName)) + 2 + Len(cmdArgs) <= packetSize

\* the byte at position i of a packet, by the layout of the protocol
Layout(i) ==
    LET n == Len(Ascii(cmdName)) IN
    CASE i = 1 -> 67
      [] i = 2 -> 82
      [] i = 3 -> 84
      [] i \in 4..5 -> 0
      [] i \in 6..5 + n -> Ascii(cmdName)[i - 5]
      [] i \in 6 + n..7 + n -> 0
      [] i \in 8 + n..7 + n + Len(cmdArgs) -> cmdArgs[i - 7 - n]
      [] OTHER -> 0

\* C11: for a command that fits, the packet written has the length of the
\* packet size of the OUT endpoint and holds 'C','R','T', 0, 0, the name, 0, 0,
\* the arguments and then zero bytes only; a second encoding of the same name
\* and arguments gives the same packet.
C11_PacketLayout ==
    Fits =>
        \A k \in 1..Len(sent) :
            /\ sent[k].err = "nil"
            /\ Len(sent[k].packet) = packetSize
            /\ \A i \in 1..packetSize : sent[k].packet[i] = Layout(i)
            /\ sent[k].packet = sent[1].packet

\* CONNECT with two arguments was encoded twice for an endpoint it fills
\* to the last byte
C11_Witness ==
    /\ Len(sent) = 2
    /\ cmdName = "CONNECT" /\ cmdArgs = <<MaxUint8, 1>> /\ packetSize = 16

\* C12: a command that does not fit fails with the error CommandTooLarge and
\* nothing is handed to the OUT endpoint.
C12_TooLargeRejected ==
    ~Fits =>
        \A k \in 1..Len(sent) :
            /\ sent[k].err = "command too large"
            /\ sent[k].packet = <<>>

\* the image has exactly 64x64 pixels
Exactly64(img) ==
    /\ img.maxX - img.minX = 64
    /\ img.maxY - img.minY = 64

\* C13: SetImage goes on to upload an image only when it has exactly 64x64
\* pixels; any other image is rejected before a transfer is made.
C13_SetImageRejectsBadSize ==
    cur.op = "SetImage" => Exactly64(cur.img)

\* the transfers an operation has made since it was called with the log at
\* from
LogSince(log, from, op) ==
    SelectSeq(SubSeq(log, from + 1, Len(log)), LAMBDA x : x.op = op)

\* what SetImages is to write for the images from slot i on: for every image
\* BAT with the length of the encoding and the slot, then the encoding, and
\* STP at the end
RECURSIVE UploadsFrom(_, _)
UploadsFrom(imgs, i) ==
    IF i > Len(imgs)
    THEN <<Transfer("SetImages", "STP", <<>>, "ok")>>
    ELSE IF imgs[i].nil
         THEN UploadsFrom(imgs, i + 1)
         ELSE <<Transfer("SetImages", "BAT",
                         <<imgs[i].jpgLen \div 256, imgs[i].jpgLen % 256, i>>, "ok"),
                Transfer("SetImages", "JPG", <<imgs[i].jpgLen>>, "ok")>>
              \o UploadsFrom(imgs, i + 1)

Expected(imgs) ==
    <<Transfer("SetImages", "CLE", <<0, MaxUint8>>, "ok")>> \o UploadsFrom(imgs, 1)

IsPrefix(a, b) ==
    Len(a) <= Len(b) /\ SubSeq(b, 1, Len(a)) = a

AllOk(log) ==
    \A i \in 1..Len(log) : log[i].res = "ok"

\* SetImages returns in this step
SetImagesReturns ==
    cur.op = "SetImages" /\ cur' = NoOp

\* C14: with valid images and writes that succeed SetImages writes CLE
\* (0x00, 0xFF), then for every image that is not nil, in ascending order of
\* the slots, BAT with the slot i+1 and the encoding of that image, then STP
\* once, and nothing for a nil image.
C14_SetImagesSequence ==
    /\ [](cur.op = "SetImages" =>
            IsPrefix(LogSince(out, cur.from, "SetImages"), Expected(cur.imgs)))
    /\ [][(SetImagesReturns /\ AllOk(LogSince(out', cur.from, "SetImages"))) =>
            /\ ret' = "nil"
            /\ LogSince(out', cur.from, "SetImages") = Expected(cur.imgs)]_vars

\* one call of SetImages with images in the slots 1 and 3 has written CLE,
\* two uploads and STP
C14_Witness ==
    /\ {i \in 1..6 : ~images[i].nil} = {1, 3}
    /\ ops = 1 /\ cur = NoOp /\ ret = "nil"
    /\ Len(out) = 8 /\ out[8] = Transfer("SetImages", "STP", <<>>, "ok")

CommandOps == {"SetBrightness", "Clear", "SetImage", "SetImages"}

\* this step writes a transfer for the running operation
OpWrites ==
    /\ Len(out') = Len(out) + 1
    /\ out'[Len(out')].op \in CommandOps

\* C15: a short write of a command operation makes it return the short-write
\* error at once: no transfer of the call follows the short one.
C15_ShortWriteStops ==
    /\ [][(OpWrites /\ out'[Len(out')].res = "short") =>
            (ret' = "short write" /\ pc'["main"] = "ready")]_vars
    /\ [][(OpWrites /\ cur.op \in CommandOps) =>
            \A i \in 1..Len(LogSince(out, cur.from, cur.op)) :
                LogSince(out, cur.from, cur.op)[i].res # "short"]_vars

\* the size a BAT command carries in its first two arguments
SizeOf(bat) == bat.args[1] * 256 + bat.args[2]

\* C16: the size in a BAT command is the number of bytes of the encoding that
\* is written after it; an encoding of more than 65535 bytes is not uploaded.
C16_SizeHeaderMatches ==
    \A i \in 1..Len(out) : \A k \in 1..i - 1 :
        ( /\ out[i].cmd = "JPG" /\ out[k].cmd = "BAT" /\ out[k].op = out[i].op
          /\ \A j \in k + 1..i - 1 : out[j].op # out[i].op )
        => SizeOf(out[k]) = out[i].args[1]

\* the transfers of SetBrightness
Brightnesses == SelectSeq(out, LAMBDA x : x.op = "SetBrightness")

\* C17: every call of SetBrightness writes one LIG command with the single
\* argument percent when percent is at most 100 and 100 when it is above.
C17_BrightnessClamped ==
    /\ Len(Brightnesses) = ops
    /\ \A i \in 1..Len(Brightnesses) :
        /\ Brightnesses[i].cmd = "LIG"
        /\ brightness <= 100 => Brightnesses[i].args = <<brightness>>
        /\ brightness > 100 => Brightnesses[i].args = <<100>>

\* SetBrightness(101) was called twice
C17_Witness ==
    brightness = 101 /\ ops = 2 /\ Len(Brightnesses) = 2

\* the transfers of Close
CloseLog == SelectSeq(out, LAMBDA x : x.op = "Close")

Releases == <<"intf0", "config", "device", "usb">>

\* C18: Close on an opened Device closes d.closed, then writes CLE
\* (0x00, 0xFF), then STP, then releases interface, config, device and context
\* in this order; a write that fails does not stop it, and it returns only
\* after the last release.
C18_CloseOrder ==
    openErr = "ok" =>
        /\ Len(CloseLog) <= 2
        /\ Len(CloseLog) >= 1 =>
            closed /\ CloseLog[1].cmd = "CLE" /\ CloseLog[1].args = <<0, MaxUint8>>
        /\ Len(CloseLog) = 2 => CloseLog[2].cmd = "STP" /\ CloseLog[2].args = <<>>
        /\ rel # <<>> => Len(CloseLog) = 2
        /\ IsPrefix(rel, Releases)
        /\ (closed /\ pc["main"] = "ready") =>
            (closeCalls >= 1 /\ rel = Releases /\ AllReleased /\ ~panicked)

\* Close has returned after its CLE write failed
C18_Witness ==
    /\ openErr = "ok" /\ closeCalls = 1
    /\ CloseLog[1].res # "ok" /\ rel = Releases

\* C19: ReadEvents starts a polling goroutine on its first call only.
C19_OnePoller ==
    pollers <= 1

\* C20: SetImages that returns the invalid-image-size error has written
\* nothing.
C20_NoWriteBeforeValidation ==
    [][(SetImagesReturns /\ ret' = "invalid image size") =>
            LogSince(out', cur.from, "SetImages") = <<>>]_vars

\* a report that was read without an error, holds the control code and the
\* state, and has a control code the decoder knows
Decodable(r) == IsKnown(r)

\* the events of the decodable reports read so far, in the order of the reads
EventsRead ==
    LET good == SelectSeq(reports, Decodable)
    IN  [i \in 1..Len(good) |-> newEvent(good[i].code, good[i].state)]

\* the events the polling goroutine has handed over or is handing over
EventStream ==
    delivered \o (IF Sending = 1 THEN <<pending>> ELSE <<>>)

\* C21: the events handed to the consumer are those of the decodable reports,
\* one for each, in the order in which the reports were read, however slow
\* the consumer is; a read that fails gives no event and the polling goes on.
C21_EventsInReadOrder ==
    /\ EventStream = EventsRead
    /\ (reports # <<>> /\ reports[Len(reports)].err) => Sending = 0

\* C24: an event is decoded from the bytes 9 and 10 of the report read in the
\* same tick; a report of fewer than 11 bytes gives no event.
C24_NoStaleBytes ==
    Sending = 1 =>
        /\ Complete(reports[Len(reports)])
        /\ pending = newEvent(reports[Len(reports)].code, reports[Len(reports)].state)

\* C22: with two calls of Close running at once d.closed is closed once, no
\* call panics on closing it again, and CLE, STP and the releases are done
\* once.
C22_ConcurrentCloseSafe ==
    /\ ~panicked
    /\ closeCount <= 1
    /\ Len(CloseLog) <= 2
    /\ IsPrefix(rel, Releases)

\* C23: once Close has released the interface no goroutine writes to the OUT
\* endpoint or reads from the IN endpoint.
C23_NoTransferAfterRelease ==
    [][(Len(out') > Len(out) \/ reads' > reads) => intf0 # "closed"]_vars

=============================================================================
